---------------------------- MODULE Spec2Model ----------------------------
(***************************************************************************)
(* Model of src/Hello.py: the filter-and-aggregate script of the query     *)
(* history dashboard.  One run of the script is a sequence of steps        *)
(* (pc); the host reruns the script on every interaction.                  *)
(*                                                                         *)
(* Data representation.  A record is one row of the DataFrame.  `row` is   *)
(* the row's index label (0-based position in the loaded file), which a    *)
(* DataFrame keeps through boolean indexing and sorting.  A null (NaN)     *)
(* cell is NULL.  query_time_sec is an integer number of seconds; the      *)
(* quantile table holds its values in hundredths of a second so that the   *)
(* linear interpolation at 0.25, 0.5, 0.9 and 0.95 is exact.               *)
(*                                                                         *)
(* Widgets.  st.date_input and st.selectbox belong to the host.  Each is   *)
(* modelled by its result: a date pair inside the allowed span, and one    *)
(* of the options the call passes.  A disabled selectbox still returns a   *)
(* value, which the script uses.                                           *)
(***************************************************************************)
EXTENDS Integers, Sequences, FiniteSets, TLC

VARIABLES
    records,        \* get_query_history(): the loaded table, never changed
    data,           \* the script's `data`, rebound by each filter
    pc,             \* position of the current run in the script
    emitted,        \* names of the outputs rendered so far in this run
    summaryOut,     \* the three metrics of summary()
    start_date, end_date, team, app, page,   \* the widgets' results
    team_options, app_options, page_options, \* options passed to the selectboxes
    warning,        \* st.warning("No data to display") was shown
    viewers_coarse, \* first viewers_data table
    viewers_fine,   \* second viewers_data table
    plot_data,      \* melted quantile table
    longest         \* the "100 Longest queries" table

vars == <<records, data, pc, emitted, summaryOut, start_date, end_date, team,
          app, page, team_options, app_options, page_options, warning,
          viewers_coarse, viewers_fine, plot_data, longest>>

\* ------------------------------------------------------------------ bounds
MaxRows == 2        \* rows of a dataset of Spec and SpecViewers
MaxPerfRows == 4    \* rows of a dataset of SpecPerf
MaxTime == 3        \* query_time_sec is 0..MaxTime in SpecPerf
MaxTopRows == 3     \* rows of a small dataset of SpecTop
MaxOver == 2        \* a large dataset of SpecTop has up to HeadN + MaxOver rows
MaxPermLen == 4     \* up to this length every tie order of a sort is explored

\* ------------------------------------------------------- program constants
HeadN == 100

NULL == "<NA>"
All == "All"

\* ----------------------------------------------------------------- helpers
Range(s) == {s[i] : i \in 1..Len(s)}

Min(S) == CHOOSE x \in S : \A y \in S : x <= y
Max(S) == CHOOSE x \in S : \A y \in S : y <= x

\* The only element of a singleton set.  Below, {F(x) : x \in {e}} binds the
\* value of e to x, so that it is computed once.
The(S) == CHOOSE x \in S : TRUE

\* The rows of s in the order given by rank: row i goes to position rank[i].
Arrange(s, rank) ==
    [p \in 1..Len(s) |-> s[CHOOSE i \in 1..Len(s) : rank[i] = p]]

\* The rows of s at the positions in idx, in their order in s.
AtPositions(s, idx) ==
    The({[k \in 1..Cardinality(idx) |-> s[CHOOSE i \in idx : pos[i] = k]] :
           pos \in {[i \in idx |-> Cardinality({j \in idx : j <= i})]}})

\* Series.dropna().unique().tolist(): distinct non-null values, in order of
\* first appearance.
dropna_unique(col) ==
    AtPositions(col, {i \in 1..Len(col) :
                        col[i] # NULL /\ \A j \in 1..(i - 1) : col[j] # col[i]})

team_name_col(d) == [i \in 1..Len(d) |-> d[i].team_name]
app_name_col(d) == [i \in 1..Len(d) |-> d[i].app_name]
page_name_col(d) == [i \in 1..Len(d) |-> d[i].page_name]

\* Faulty variant of between: the right end excluded.
between_exclusive(d, left, right) ==
    LET Keep(r) == left <= r.start_date /\ r.start_date < right
    IN SelectSeq(d, Keep)

\* data[data.start_date.between(left, right)]: both ends inclusive.
between(d, left, right) ==
    LET Keep(r) == left <= r.start_date /\ r.start_date <= right
    IN SelectSeq(d, Keep)

\* data[data.team_name == team]: a null cell equals nothing.
team_eq(d, t) == LET Keep(r) == r.team_name = t IN SelectSeq(d, Keep)
app_eq(d, a) == LET Keep(r) == r.app_name = a IN SelectSeq(d, Keep)
page_eq(d, p) == LET Keep(r) == r.page_name = p IN SelectSeq(d, Keep)

\* DataFrame.drop_duplicates(): the first row of each distinct value.
drop_duplicates(rows) ==
    AtPositions(rows, {i \in 1..Len(rows) : \A j \in 1..(i - 1) : rows[j] # rows[i]})

\* DataFrame.dropna(): the rows without a null cell.
dropna(rows) ==
    LET Full(x) == \A c \in 1..Len(x) : x[c] # NULL IN SelectSeq(rows, Full)

\* Faulty variant of summary: pages counted by page_name alone.
summary_pages_by_name(d) ==
    [teams |-> Len(dropna_unique(team_name_col(d))),
     apps  |-> Len(drop_duplicates(dropna(
                 [i \in 1..Len(d) |-> <<d[i].team_name, d[i].app_name>>]))),
     pages |-> Len(dropna_unique(page_name_col(d)))]

\* Faulty variant of summary: pairs and triples counted without dropping nulls.
summary_keepna(d) ==
    [teams |-> Len(dropna_unique(team_name_col(d))),
     apps  |-> Len(drop_duplicates(
                 [i \in 1..Len(d) |-> <<d[i].team_name, d[i].app_name>>])),
     pages |-> Len(drop_duplicates(
                 [i \in 1..Len(d) |-> <<d[i].team_name, d[i].app_name, d[i].page_name>>]))]

\* summary(data): the three metrics.
summary(d) ==
    [teams |-> Len(dropna_unique(team_name_col(d))),
     apps  |-> Len(drop_duplicates(dropna(
                 [i \in 1..Len(d) |-> <<d[i].team_name, d[i].app_name>>]))),
     pages |-> Len(drop_duplicates(dropna(
                 [i \in 1..Len(d) |-> <<d[i].team_name, d[i].app_name, d[i].page_name>>])))]

\* ------------------------------------------------------------------ sorting
\* Descending order in which rows of equal key keep their input order: what
\* a stable algorithm yields.
StableDesc(s, by) ==
    The({Arrange(s, rank) :
           rank \in {[i \in 1..Len(s) |->
                        Cardinality({j \in 1..Len(s) :
                                       \/ s[j][by] > s[i][by]
                                       \/ (s[j][by] = s[i][by] /\ j < i)}) + 1]}})

\* Descending order in which rows of equal key come out in reverse input order.
ReverseTiesDesc(s, by) ==
    The({Arrange(s, rank) :
           rank \in {[i \in 1..Len(s) |->
                        Cardinality({j \in 1..Len(s) :
                                       \/ s[j][by] > s[i][by]
                                       \/ (s[j][by] = s[i][by] /\ j > i)}) + 1]}})

\* Faulty variant of sort_values: ascending order.
sort_values_ascending(s, by) ==
    {[i \in 1..Len(s) |-> st[Len(s) + 1 - i]] : st \in {StableDesc(s, by)}}

\* Every order of the positions idx in which the keys k do not increase: a
\* position of largest key first, followed by an order of the others.
RECURSIVE DescOrders(_, _)
DescOrders(k, idx) ==
    IF idx = {} THEN {<<>>}
    ELSE UNION {{<<i>> \o rest : rest \in DescOrders(k, idx \ {i})} :
                i \in {j \in idx : \A m \in idx : k[j] >= k[m]}}

\* DataFrame.sort_values(by=..., ascending=False) with the default
\* kind="quicksort", which is not stable: the result is in non-increasing key
\* order and the order of rows of equal key is not determined by the script.
\* The operator yields the set of possible results: every arrangement for a
\* table of at most MaxPermLen rows, and the two extreme tie orders beyond.
sort_values(s, by) ==
    IF Len(s) <= MaxPermLen
    THEN {[p \in 1..Len(s) |-> s[o[p]]] :
            o \in DescOrders([i \in 1..Len(s) |-> s[i][by]], 1..Len(s))}
    ELSE {StableDesc(s, by), ReverseTiesDesc(s, by)}

\* Ascending order of a sequence of integers (duplicates kept).
SortAsc(v) ==
    The({Arrange(v, rank) :
           rank \in {[i \in 1..Len(v) |->
                        Cardinality({j \in 1..Len(v) :
                                       \/ v[j] < v[i]
                                       \/ (v[j] = v[i] /\ j < i)}) + 1]}})

\* The elements of a finite set of integers in ascending order.
RECURSIVE SetAsc(_)
SetAsc(S) == IF S = {} THEN <<>> ELSE <<Min(S)>> \o SetAsc(S \ {Min(S)})

\* Faulty variant of head: one row short.
head_short(s, n) == SubSeq(s, 1, IF Len(s) < n - 1 THEN Len(s) ELSE n - 1)

\* DataFrame.head(n)
head(s, n) == SubSeq(s, 1, IF Len(s) < n THEN Len(s) ELSE n)

\* ----------------------------------------------------------------- viewers
\* Position of a name in the lexicographic order of strings.
NameOrder == <<"a1", "a2", "p1", "t1", "t2", "v1", "v2">>
Ord(x) == CHOOSE i \in 1..Len(NameOrder) : NameOrder[i] = x

\* data.groupby("start_date").viewer_name.apply(set).to_frame("Viewers"):
\* one row per date, in ascending date order.
groupby_date_viewers(d) ==
    LET keys == SetAsc({r.start_date : r \in Range(d)})
    IN [k \in 1..Len(keys) |->
          [start_date |-> keys[k],
           Viewers |-> {r.viewer_name : r \in {x \in Range(d) : x.start_date = keys[k]}}]]

\* Faulty variant of groupby_page_viewers: the viewers of the whole day in every row.
groupby_page_viewers_pooled(d) ==
    LET keyed == {r \in Range(d) : r.app_name # NULL /\ r.page_name # NULL}
        code(r) == r.start_date * 100 + Ord(r.app_name) * 10 + Ord(r.page_name)
        codes == SetAsc({code(r) : r \in keyed})
        first(c) == CHOOSE r \in keyed : code(r) = c
    IN [k \in 1..Len(codes) |->
          [start_date |-> first(codes[k]).start_date,
           app_name |-> first(codes[k]).app_name,
           page_name |-> first(codes[k]).page_name,
           Viewers |-> {r.viewer_name :
                          r \in {x \in Range(d) : x.start_date = first(codes[k]).start_date}}]]

\* data.groupby(["start_date", "app_name", "page_name"]) ...: groupby drops
\* the rows that have a null in a key column (dropna=True is the default);
\* one row per remaining key, in ascending key order.
groupby_page_viewers(d) ==
    LET keyed == {r \in Range(d) : r.app_name # NULL /\ r.page_name # NULL}
        code(r) == r.start_date * 100 + Ord(r.app_name) * 10 + Ord(r.page_name)
        codes == SetAsc({code(r) : r \in keyed})
        first(c) == CHOOSE r \in keyed : code(r) = c
    IN [k \in 1..Len(codes) |->
          [start_date |-> first(codes[k]).start_date,
           app_name |-> first(codes[k]).app_name,
           page_name |-> first(codes[k]).page_name,
           Viewers |-> {r.viewer_name : r \in {x \in keyed : code(x) = codes[k]}}]]

\* viewers_data["Unique viewers"] = viewers_data.Viewers.apply(len)
coarse_with_len(t) ==
    [i \in 1..Len(t) |->
       [start_date |-> t[i].start_date, Viewers |-> t[i].Viewers,
        Unique_viewers |-> Cardinality(t[i].Viewers)]]

fine_with_len(t) ==
    [i \in 1..Len(t) |->
       [start_date |-> t[i].start_date, app_name |-> t[i].app_name,
        page_name |-> t[i].page_name, Viewers |-> t[i].Viewers,
        Unique_viewers |-> Cardinality(t[i].Viewers)]]

\* --------------------------------------------------------------- quantiles
\* The list [0, 0.25, 0.5, 0.9, 0.95, 1], in percent.
Fractions == <<0, 25, 50, 90, 95, 100>>
column_names == <<"min", "p25", "median", "p90", "p95", "max">>

\* Faulty variant of quantile: the lower order statistic, without interpolation.
quantile_lower(v, q) == 100 * v[(((Len(v) - 1) * q) \div 100) + 1]

\* Series.quantile(q) with linear interpolation, on the values in ascending
\* order; q in percent, result in hundredths.
quantile(v, q) ==
    LET h == (Len(v) - 1) * q
        lo == h \div 100
        fr == h % 100
    IN 100 * v[lo + 1] + (IF fr = 0 THEN 0 ELSE (v[lo + 2] - v[lo + 1]) * fr)

\* groupby("start_date")["query_time_sec"].quantile([...]).unstack(), with the
\* columns renamed and the index reset: one row per date, ascending.
quartiles(d) ==
    LET keys == SetAsc({r.start_date : r \in Range(d)})
        times(k) == LET g == SelectSeq(d, LAMBDA r : r.start_date = k)
                    IN SortAsc([i \in 1..Len(g) |-> g[i].query_time_sec])
    IN [k \in 1..Len(keys) |->
          The({[start_date |-> keys[k],
                stats |-> [c \in 1..Len(Fractions) |-> quantile(v, Fractions[c])]] :
                 v \in {times(keys[k])}})]

\* pd.melt(quartiles, id_vars="start_date", value_vars=column_names): the
\* columns stacked one after the other.
melt(q) ==
    [i \in 1..Len(q) * Len(column_names) |->
       LET c == ((i - 1) \div Len(q)) + 1
           k == ((i - 1) % Len(q)) + 1
       IN [start_date |-> q[k].start_date, variable |-> column_names[c],
           value |-> q[k].stats[c]]]

\* ------------------------------------------------------------------- top N
\* [[...columns...]].reset_index(drop=True): the listed columns (query_text
\* is not modelled), rows renumbered by position.
project(s) ==
    [i \in 1..Len(s) |->
       [start_date |-> s[i].start_date, team_name |-> s[i].team_name,
        app_name |-> s[i].app_name, page_name |-> s[i].page_name,
        query_time_sec |-> s[i].query_time_sec]]

\* ------------------------------------------------------------------- state
\* The table of n rows with the cells c; row i of the file has index label
\* i - 1.
Table(n, c) ==
    [i \in 1..n |->
       [row |-> i - 1, start_date |-> c[i].start_date,
        viewer_name |-> c[i].viewer_name, team_name |-> c[i].team_name,
        app_name |-> c[i].app_name, page_name |-> c[i].page_name,
        query_time_sec |-> c[i].query_time_sec]]

\* Rows of the datasets of Spec: the hierarchy columns vary, with nulls.
SmallCells ==
    [start_date : 1..3, viewer_name : {"v1"}, team_name : {"t1", "t2", NULL},
     app_name : {"a1", NULL}, page_name : {"p1", NULL}, query_time_sec : {1}]

\* Rows of the datasets of SpecViewers: viewers, apps and pages vary.
ViewerCells ==
    [start_date : 1..3, viewer_name : {"v1", "v2"}, team_name : {"t1"},
     app_name : {"a1", "a2", NULL}, page_name : {"p1", NULL}, query_time_sec : {1}]

\* Rows of the datasets of SpecPerf: durations vary over two days.
PerfCells ==
    [start_date : 1..2, viewer_name : {"v1"}, team_name : {"t1"},
     app_name : {NULL}, page_name : {NULL}, query_time_sec : 0..MaxTime]

\* The dataset of the worked example: durations 1..5 on day 1 and one query
\* on each of days 2 and 3.
ExampleDataset ==
    [i \in 1..7 |->
       [row |-> i - 1, start_date |-> IF i <= 5 THEN 1 ELSE i - 4,
        viewer_name |-> "v1", team_name |-> "t1", app_name |-> NULL,
        page_name |-> NULL, query_time_sec |-> IF i <= 5 THEN 6 - i ELSE 1]]

\* Rows of the small datasets of SpecTop: durations with ties, two apps.
TopCells ==
    [start_date : {1}, viewer_name : {"v1"}, team_name : {"t1"},
     app_name : {"a1", "a2"}, page_name : {"p1"}, query_time_sec : 0..2]

\* The large datasets of SpecTop, around HeadN rows: durations repeat with
\* period m; the first half of the rows is of one app and the second half
\* of another.
LargeDataset(n, m) ==
    [i \in 1..n |->
       [row |-> i - 1, start_date |-> 1, viewer_name |-> "v1", team_name |-> NULL,
        app_name |-> IF 2 * i <= n THEN "a1" ELSE "a2", page_name |-> "p1",
        query_time_sec |-> i % m]]

NoTable == <<>>

Start(d) ==
    /\ records = d
    /\ data = d
    /\ pc = "summary"
    /\ emitted = {}
    /\ summaryOut = [teams |-> 0, apps |-> 0, pages |-> 0]
    /\ start_date = 0 /\ end_date = 0
    /\ team = All /\ app = All /\ page = All
    /\ team_options = <<>> /\ app_options = <<>> /\ page_options = <<>>
    /\ warning = FALSE
    /\ viewers_coarse = NoTable /\ viewers_fine = NoTable
    /\ plot_data = NoTable /\ longest = NoTable

Init == \E n \in 1..MaxRows : \E c \in [1..n -> SmallCells] : Start(Table(n, c))

InitViewers ==
    \E n \in 1..MaxRows : \E c \in [1..n -> ViewerCells] : Start(Table(n, c))

InitPerf ==
    \/ \E n \in 1..MaxPerfRows : \E c \in [1..n -> PerfCells] : Start(Table(n, c))
    \/ Start(ExampleDataset)

InitTop ==
    \/ \E n \in 1..MaxTopRows : \E c \in [1..n -> TopCells] : Start(Table(n, c))
    \/ \E n \in (HeadN - 1)..(HeadN + MaxOver) : \E m \in {1, 3, 50} :
         Start(LargeDataset(n, m))

\* ----------------------------------------------------------------- actions
\* Lines 55-82: load, then summary(data) on the table as loaded.
RunSummary ==
    /\ pc = "summary"
    /\ summaryOut' = summary(data)
    /\ emitted' = emitted \cup {"summary"}
    /\ pc' = "date"
    /\ UNCHANGED <<records, data, start_date, end_date, team, app, page,
                   team_options, app_options, page_options, warning,
                   viewers_coarse, viewers_fine, plot_data, longest>>

\* Lines 86-93: the date range widget and the date filter.
DateInput ==
    /\ pc = "date"
    /\ LET lo == Min({r.start_date : r \in Range(data)})
           hi == Max({r.start_date : r \in Range(data)})
       IN \E s \in lo..hi : \E e \in s..hi :
            /\ start_date' = s
            /\ end_date' = e
            /\ data' = between(data, s, e)
    /\ pc' = "team"
    /\ UNCHANGED <<records, emitted, summaryOut, team, app, page,
                   team_options, app_options, page_options, warning,
                   viewers_coarse, viewers_fine, plot_data, longest>>

\* Faulty variant of TeamSelect: the options taken from the table as loaded.
TeamSelectFull ==
    /\ pc = "team"
    /\ team_options' = <<All>> \o dropna_unique(team_name_col(records))
    /\ \E t \in Range(team_options') :
         /\ team' = t
         /\ data' = IF t # All THEN team_eq(data, t) ELSE data
    /\ pc' = "app"
    /\ UNCHANGED <<records, emitted, summaryOut, start_date, end_date, app, page,
                   app_options, page_options, warning,
                   viewers_coarse, viewers_fine, plot_data, longest>>

\* Lines 95-100: the team selectbox, over the date-filtered table.
TeamSelect ==
    /\ pc = "team"
    /\ team_options' = <<All>> \o dropna_unique(team_name_col(data))
    /\ \E t \in Range(team_options') :
         /\ team' = t
         /\ data' = IF t # All THEN team_eq(data, t) ELSE data
    /\ pc' = "app"
    /\ UNCHANGED <<records, emitted, summaryOut, start_date, end_date, app, page,
                   app_options, page_options, warning,
                   viewers_coarse, viewers_fine, plot_data, longest>>

\* Lines 102-107: the app selectbox (disabled when team is "All", and still
\* returning a value).
AppSelect ==
    /\ pc = "app"
    /\ app_options' = <<All>> \o dropna_unique(app_name_col(data))
    /\ \E a \in Range(app_options') :
         /\ app' = a
         /\ data' = IF a # All THEN app_eq(data, a) ELSE data
    /\ pc' = "page"
    /\ UNCHANGED <<records, emitted, summaryOut, start_date, end_date, team, page,
                   team_options, page_options, warning,
                   viewers_coarse, viewers_fine, plot_data, longest>>

\* Lines 109-113: the page selectbox.
PageSelect ==
    /\ pc = "page"
    /\ page_options' = <<All>> \o dropna_unique(page_name_col(data))
    /\ \E p \in Range(page_options') :
         /\ page' = p
         /\ data' = IF p # All THEN page_eq(data, p) ELSE data
    /\ pc' = "check"
    /\ UNCHANGED <<records, emitted, summaryOut, start_date, end_date, team, app,
                   team_options, app_options, warning,
                   viewers_coarse, viewers_fine, plot_data, longest>>

\* Faulty variant of EmptyCheck: the warning without the stop.
EmptyCheckNoStop ==
    /\ pc = "check"
    /\ warning' = (data = <<>>)
    /\ pc' = "viewers"
    /\ UNCHANGED <<records, data, emitted, summaryOut, start_date, end_date, team,
                   app, page, team_options, app_options, page_options,
                   viewers_coarse, viewers_fine, plot_data, longest>>

\* Lines 117-119: st.warning and st.stop() when nothing is left.
EmptyCheck ==
    /\ pc = "check"
    /\ warning' = (data = <<>>)
    /\ pc' = IF data = <<>> THEN "stopped" ELSE "viewers"
    /\ UNCHANGED <<records, data, emitted, summaryOut, start_date, end_date, team,
                   app, page, team_options, app_options, page_options,
                   viewers_coarse, viewers_fine, plot_data, longest>>

\* Lines 124-131: viewers per day.
ViewersCoarse ==
    /\ pc = "viewers"
    /\ \E t \in sort_values(groupby_date_viewers(data), "start_date") :
         viewers_coarse' = coarse_with_len(t)
    /\ emitted' = emitted \cup {"viewers_coarse"}
    /\ pc' = "viewers_fine"
    /\ UNCHANGED <<records, data, summaryOut, start_date, end_date, team, app, page,
                   team_options, app_options, page_options, warning,
                   viewers_fine, plot_data, longest>>

\* Lines 135-142: viewers per day, app and page.
ViewersFine ==
    /\ pc = "viewers_fine"
    /\ \E t \in sort_values(groupby_page_viewers(data), "start_date") :
         viewers_fine' = fine_with_len(t)
    /\ emitted' = emitted \cup {"viewers_fine"}
    /\ pc' = "quartiles"
    /\ UNCHANGED <<records, data, summaryOut, start_date, end_date, team, app, page,
                   team_options, app_options, page_options, warning,
                   viewers_coarse, plot_data, longest>>

\* Lines 157-187: daily quantiles, melted for the chart.
Quartiles ==
    /\ pc = "quartiles"
    /\ \E q \in {quartiles(data)} : plot_data' = melt(q)
    /\ emitted' = emitted \cup {"quartiles"}
    /\ pc' = "longest"
    /\ UNCHANGED <<records, data, summaryOut, start_date, end_date, team, app, page,
                   team_options, app_options, page_options, warning,
                   viewers_coarse, viewers_fine, longest>>

\* Lines 191-205: the 100 longest queries.
LongestQueries ==
    /\ pc = "longest"
    /\ \E s \in sort_values(data, "query_time_sec") :
         longest' = project(head(s, HeadN))
    /\ emitted' = emitted \cup {"longest"}
    /\ pc' = "done"
    /\ UNCHANGED <<records, data, summaryOut, start_date, end_date, team, app, page,
                   team_options, app_options, page_options, warning,
                   viewers_coarse, viewers_fine, plot_data>>

\* The host runs the script again, from the top, on the next interaction.
Rerun ==
    /\ pc \in {"done", "stopped"}
    /\ records' = records
    /\ data' = records
    /\ pc' = "summary"
    /\ emitted' = {}
    /\ summaryOut' = [teams |-> 0, apps |-> 0, pages |-> 0]
    /\ start_date' = 0 /\ end_date' = 0
    /\ team' = All /\ app' = All /\ page' = All
    /\ team_options' = <<>> /\ app_options' = <<>> /\ page_options' = <<>>
    /\ warning' = FALSE
    /\ viewers_coarse' = NoTable /\ viewers_fine' = NoTable
    /\ plot_data' = NoTable /\ longest' = NoTable

Next ==
    \/ RunSummary
    \/ DateInput
    \/ TeamSelect
    \/ AppSelect
    \/ PageSelect
    \/ EmptyCheck
    \/ ViewersCoarse
    \/ ViewersFine
    \/ Quartiles
    \/ LongestQueries
    \/ Rerun

Spec == Init /\ [][Next]_vars
SpecViewers == InitViewers /\ [][Next]_vars
SpecPerf == InitPerf /\ [][Next]_vars
SpecTop == InitTop /\ [][Next]_vars

\* ------------------------------------------------------------------ claims
PostTeam == pc \notin {"summary", "date", "team"}
PostFilter == pc \in {"check", "stopped", "viewers", "viewers_fine", "quartiles",
                      "longest", "done"}
Checked == pc \in {"stopped", "viewers", "viewers_fine", "quartiles", "longest", "done"}
ViewersDone == pc \in {"quartiles", "longest", "done"}
QuartilesDone == pc \in {"longest", "done"}

InRange(r) == start_date <= r.start_date /\ r.start_date <= end_date

\* The records a selection (s, e, t, a, p) asks for.
Wanted(t, a, p) ==
    SelectSeq(records,
              LAMBDA r : /\ InRange(r)
                         /\ t # All => r.team_name = t
                         /\ a # All => r.app_name = a
                         /\ p # All => r.page_name = p)

\* C1: after the filter stage, data is exactly the sub-sequence of the loaded
\* records whose start_date lies in [start_date, end_date], ends included,
\* and whose team, app and page equal each selection that is not "All":
\* same records, same relative order, nothing added or altered.
C1_FilterExact == PostFilter => data = Wanted(team, app, page)

C1_Witness ==
    /\ pc = "check"
    /\ team # All /\ page # All
    /\ data # <<>> /\ Len(data) < Len(records)
    /\ \E i \in 1..Len(data) : data[i].start_date = end_date

AggregationNames == {"viewers_coarse", "viewers_fine", "quartiles", "longest"}

\* C2 (as claimed): once the filtered subset is found empty the run is
\* stopped with the warning and no aggregation, the summary included, has
\* been computed or emitted in that run.
C2_NothingComputedWhenEmpty ==
    (Checked /\ data = <<>>) => (pc = "stopped" /\ warning /\ emitted = {})

\* C2 (amended): once the filtered subset is found empty the run is stopped
\* with the warning and none of the four aggregations that follow the filter
\* stage is computed or emitted; the summary, which the script computes from
\* the loaded table before the filter stage, is the only output of the run.
C2_DownstreamSkippedWhenEmpty ==
    (Checked /\ data = <<>>) =>
        /\ pc = "stopped" /\ warning
        /\ emitted = {"summary"}
        /\ viewers_coarse = NoTable /\ viewers_fine = NoTable
        /\ plot_data = NoTable /\ longest = NoTable

C2_Witness == pc = "stopped" /\ data = <<>> /\ warning /\ summaryOut.teams > 0

\* C3 (as claimed): an app selected while team is "All", or a page selected
\* while app is "All", is ignored: data is what the selection gives with that
\* lower level set to "All".
C3_OrphanFilterIgnored ==
    PostFilter =>
        data = Wanted(team,
                      IF team = All THEN All ELSE app,
                      IF app = All THEN All ELSE page)

\* C4 (as claimed): the team options are "All" plus the distinct non-null
\* team_name values of the full dataset, whatever the date range.
C4_TeamOptionsOfFullDataset ==
    PostTeam =>
        Range(team_options) =
            {All} \cup ({r.team_name : r \in Range(records)} \ {NULL})

\* C4 (amended): the team options are "All" followed by the distinct non-null
\* team_name values of the records inside the selected date range; a team
\* with no record inside the range is not offered.
C4_TeamOptionsOfDateRange ==
    PostTeam =>
        /\ team_options[1] = All
        /\ Len(team_options) = Cardinality(Range(team_options))
        /\ Range(team_options) =
             {All} \cup ({r.team_name : r \in {x \in Range(records) : InRange(x)}} \ {NULL})

C4_Witness ==
    /\ pc = "app"
    /\ \E r \in Range(records) :
         r.team_name # NULL /\ r.team_name \notin Range(team_options)

\* The three counts of a table, by sets.
Counts(d) ==
    [teams |-> Cardinality({t \in {r.team_name : r \in Range(d)} : t # NULL}),
     apps  |-> Cardinality({k \in {<<r.team_name, r.app_name>> : r \in Range(d)} :
                              k[1] # NULL /\ k[2] # NULL}),
     pages |-> Cardinality({k \in {<<r.team_name, r.app_name, r.page_name>> : r \in Range(d)} :
                              k[1] # NULL /\ k[2] # NULL /\ k[3] # NULL})]

\* C5 (as claimed): the summary counts are those of the filtered subset.
C5_SummaryOfFilteredSubset == pc = "done" => summaryOut = Counts(data)

\* C5 (amended): the summary counts are those of the full loaded record set,
\* whatever the date, team, app and page selection; the other four views are
\* the ones computed from the filtered subset.
C5_SummaryOfLoadedRecords == pc # "summary" => summaryOut = Counts(records)

C5_Witness == pc = "done" /\ Counts(data) # Counts(records)

\* The table without its row i.
Without(d, i) == AtPositions(d, (1..Len(d)) \ {i})

\* C6: the three counts are independent distinct counts with nulls dropped:
\* taking one row away lowers teamCount by one exactly when the row's
\* team_name is non-null and no other row has it, appCount by one exactly
\* when team_name and app_name are both non-null and no other row has the
\* pair, pageCount by one exactly when all three are non-null and no other
\* row has the triple; an empty table counts zero.  So a row with team and
\* app but a null page_name counts for appCount and not for pageCount.
\* (Stated where summary() has just run, on the record set it was given.)
C6_SummaryCounts ==
    pc = "date" =>
        /\ summary(<<>>) = [teams |-> 0, apps |-> 0, pages |-> 0]
        /\ \A i \in 1..Len(records) :
             \A r \in {records[i]} : \A rest \in {Without(records, i)} :
             \A less \in {summary(rest)} :
                LET newTeam == /\ r.team_name # NULL
                               /\ \A x \in Range(rest) : x.team_name # r.team_name
                    newApp == /\ r.team_name # NULL /\ r.app_name # NULL
                              /\ \A x \in Range(rest) :
                                   <<x.team_name, x.app_name>> # <<r.team_name, r.app_name>>
                    newPage == /\ r.team_name # NULL /\ r.app_name # NULL
                               /\ r.page_name # NULL
                               /\ \A x \in Range(rest) :
                                    <<x.team_name, x.app_name, x.page_name>>
                                      # <<r.team_name, r.app_name, r.page_name>>
                IN /\ summaryOut.teams = less.teams + (IF newTeam THEN 1 ELSE 0)
                   /\ summaryOut.apps = less.apps + (IF newApp THEN 1 ELSE 0)
                   /\ summaryOut.pages = less.pages + (IF newPage THEN 1 ELSE 0)

C6_Witness ==
    /\ pc = "date"
    /\ \E r \in Range(records) :
         r.team_name # NULL /\ r.app_name # NULL /\ r.page_name = NULL
    /\ \E r \in Range(records) : r.team_name = NULL /\ r.app_name # NULL
    /\ summaryOut.apps > summaryOut.pages

CoarseRowsOf(r) ==
    {i \in 1..Len(viewers_coarse) : viewers_coarse[i].start_date = r.start_date}

FineRowsOf(r) ==
    {i \in 1..Len(viewers_fine) :
       /\ viewers_fine[i].start_date = r.start_date
       /\ viewers_fine[i].app_name = r.app_name
       /\ viewers_fine[i].page_name = r.page_name}

\* C7 (as claimed): in both viewer tables there is one row per distinct key
\* of the filtered subset, and every record of the subset belongs to exactly
\* one row, whose Viewers holds the record's viewer_name.
C7_EveryRecordInOneRow ==
    ViewersDone =>
        /\ Len(viewers_coarse) = Cardinality({r.start_date : r \in Range(data)})
        /\ Len(viewers_fine) =
             Cardinality({<<r.start_date, r.app_name, r.page_name>> : r \in Range(data)})
        /\ \A r \in Range(data) :
             /\ Cardinality(CoarseRowsOf(r)) = 1
             /\ \A i \in CoarseRowsOf(r) : r.viewer_name \in viewers_coarse[i].Viewers
             /\ Cardinality(FineRowsOf(r)) = 1
             /\ \A i \in FineRowsOf(r) : r.viewer_name \in viewers_fine[i].Viewers

\* C7 (amended): the per-day table has one row per distinct start_date and
\* every record belongs to exactly one of its rows; the per-page table has
\* one row per distinct (start_date, app_name, page_name) whose app_name and
\* page_name are both non-null, every record with both non-null belongs to
\* exactly one of its rows, and a record with a null app_name or page_name
\* belongs to none.  A row's Viewers is the set of viewer_name of the records
\* of its key, and Unique viewers is its size.
C7_KeyedRecordsInOneRow ==
    ViewersDone =>
        /\ Len(viewers_coarse) = Cardinality({r.start_date : r \in Range(data)})
        /\ Len(viewers_fine) =
             Cardinality({<<r.start_date, r.app_name, r.page_name>> :
                            r \in {x \in Range(data) : x.app_name # NULL /\ x.page_name # NULL}})
        /\ \A r \in Range(data) :
             /\ Cardinality(CoarseRowsOf(r)) = 1
             /\ \A i \in CoarseRowsOf(r) : r.viewer_name \in viewers_coarse[i].Viewers
             /\ Cardinality(FineRowsOf(r)) =
                  IF r.app_name # NULL /\ r.page_name # NULL THEN 1 ELSE 0
             /\ \A i \in FineRowsOf(r) : r.viewer_name \in viewers_fine[i].Viewers
        /\ \A i \in 1..Len(viewers_coarse) :
             /\ viewers_coarse[i].Viewers =
                  {r.viewer_name : r \in {x \in Range(data) : i \in CoarseRowsOf(x)}}
             /\ viewers_coarse[i].Unique_viewers = Cardinality(viewers_coarse[i].Viewers)
        /\ \A i \in 1..Len(viewers_fine) :
             /\ viewers_fine[i].Viewers =
                  {r.viewer_name : r \in {x \in Range(data) : i \in FineRowsOf(x)}}
             /\ viewers_fine[i].Unique_viewers = Cardinality(viewers_fine[i].Viewers)

C7_Witness ==
    /\ pc = "done"
    /\ \E r \in Range(data) : r.app_name = NULL \/ r.page_name = NULL
    /\ Len(viewers_fine) = 1
    /\ viewers_coarse[1].Unique_viewers = 2

Occurrences(s, x) == Cardinality({i \in 1..Len(s) : s[i] = x})

\* C8: for a non-empty filtered subset the top-N table is in non-increasing
\* order of query_time_sec, has min(100, |subset|) rows, starts with the
\* largest query_time_sec of the subset, and every row is the projection of
\* a record of the subset, no more often than the subset holds such records.
C8_TopN ==
    pc = "done" =>
        /\ \A i \in 1..(Len(longest) - 1) :
             longest[i].query_time_sec >= longest[i + 1].query_time_sec
        /\ Len(longest) = IF Len(data) < 100 THEN Len(data) ELSE 100
        /\ longest[1].query_time_sec = Max({r.query_time_sec : r \in Range(data)})
        /\ \A x \in Range(longest) :
             /\ x \in Range(project(data))
             /\ Occurrences(longest, x) <= Occurrences(project(data), x)

C8_Witness ==
    /\ pc = "done"
    /\ Len(data) > 100 /\ Len(longest) = 100
    /\ longest[100].query_time_sec < longest[1].query_time_sec
    /\ \E r \in Range(data) : r.query_time_sec < longest[100].query_time_sec

\* What a stable sort would show.
StableTop == project(head(StableDesc(data, "query_time_sec"), HeadN))

\* C9 (as claimed): the top-N table is that of a stable sort: records of
\* equal query_time_sec keep their order in the filtered subset, and of the
\* records tied across the 100-row cut the earlier ones are kept.
C9_StableTopN == pc = "done" => longest = StableTop

\* C9 (amended): the top-N table holds, position by position, the same
\* query_time_sec as a stable descending sort cut at 100 rows, so records of
\* different query_time_sec are in descending order and the cut keeps the
\* longest; the relative order of records of equal query_time_sec, and which
\* of the records tied across the cut are kept, is not determined.
C9_TopNTimes ==
    pc = "done" =>
        \A st \in {StableTop} :
           /\ Len(longest) = Len(st)
           /\ \A i \in 1..Len(longest) :
                longest[i].query_time_sec = st[i].query_time_sec

C9_Witness ==
    /\ pc = "done"
    /\ Len(data) > 100
    /\ \E st \in {StableTop} :
         \E x \in Range(st) : Occurrences(longest, x) # Occurrences(st, x)

StatRows(k, name) ==
    {i \in 1..Len(plot_data) :
       plot_data[i].start_date = k /\ plot_data[i].variable = name}

Stat(k, name) == plot_data[CHOOSE i \in StatRows(k, name) : TRUE].value

\* C10: for every start_date of the filtered subset the quantile table holds
\* one value per statistic, min <= p25 <= median <= p90 <= p95 <= max, min
\* and max being the smallest and largest query_time_sec of the day (values
\* in hundredths); durations 1..5 on one day give 1, 2, 3, 4.6, 4.8, 5.
C10_QuantileOrder ==
    QuartilesDone =>
        /\ \A k \in {r.start_date : r \in Range(data)} :
             LET times == {r.query_time_sec : r \in {x \in Range(data) : x.start_date = k}}
             IN /\ \A c \in 1..Len(column_names) :
                     Cardinality(StatRows(k, column_names[c])) = 1
                /\ Stat(k, "min") = 100 * Min(times)
                /\ Stat(k, "max") = 100 * Max(times)
                /\ Stat(k, "min") <= Stat(k, "p25")
                /\ Stat(k, "p25") <= Stat(k, "median")
                /\ Stat(k, "median") <= Stat(k, "p90")
                /\ Stat(k, "p90") <= Stat(k, "p95")
                /\ Stat(k, "p95") <= Stat(k, "max")
        /\ (records = ExampleDataset /\ start_date = 1 /\ end_date = 1) =>
             /\ Stat(1, "min") = 100 /\ Stat(1, "p25") = 200
             /\ Stat(1, "median") = 300 /\ Stat(1, "p90") = 460
             /\ Stat(1, "p95") = 480 /\ Stat(1, "max") = 500

C10_Witness ==
    /\ pc = "done"
    /\ \E k \in {r.start_date : r \in Range(data)} :
         /\ Stat(k, "min") < Stat(k, "p25")
         /\ Stat(k, "p25") < Stat(k, "median")
         /\ Stat(k, "median") < Stat(k, "p90")
         /\ Stat(k, "p90") < Stat(k, "p95")
         /\ Stat(k, "p95") < Stat(k, "max")
         /\ Stat(k, "p90") % 100 # 0
=============================================================================
